---------------------------- MODULE Spec2Model ----------------------------
(***************************************************************************)
(* A model of the XML helpers of cndev.py: xml_to_tree, get_path_to_root,  *)
(* load_xml_filter and get_sros_elem_config.                               *)
(*                                                                         *)
(* Python strings are sequences of one-character strings, so that strip(), *)
(* re.sub() and the f-string of xml_to_tree are computed and not assumed.  *)
(* Each helper has its own specification (SpecPath, SpecTree, SpecFilter,  *)
(* SpecFetch); the variables of the other helpers stay at their initial    *)
(* values there.                                                           *)
(***************************************************************************)
EXTENDS Integers, Sequences, FiniteSets

VARIABLES
    parent,     \* Element tree: parent[n] is getparent() of element n, 0 is None
    tag,        \* tag[n]: the qualified tag of element n
    text,       \* text[n]: the text of element n, None or Some(string)
    gpr,        \* the activation of get_path_to_root: pc, e, preserve_ns, anc, path
    gen,        \* the xml_to_tree generator: pc, its stack of frames, its flags
    lines,      \* what the consumer of the generator has been handed so far
    fsys,       \* the file system: fsys[path] is the file at that absolute path
    ld,         \* the activation of load_xml_filter: pc, fname, fdir, result
    prev,       \* the load before this one: fname, fdir, result
    nfd,        \* the device session: the get_config requests it has received
    cfg,        \* the activation of get_sros_elem_config
    stdout      \* what the running call has printed

xmlvars == <<parent, tag, text, gpr, gen, lines>>
iovars == <<fsys, ld, prev, nfd, cfg, stdout>>
vars == <<parent, tag, text, gpr, gen, lines, fsys, ld, prev, nfd, cfg, stdout>>

---------------------------------------------------------------------------
(* Bounds of the model. *)

\* Number of elements of a document.
MaxNodes == 3

\* The walk of get_path_to_root is cut off after this many loop iterations
\* (a walk on a cyclic parent chain has no other end).
MaxWalk == 5

Nodes == 1..MaxNodes

---------------------------------------------------------------------------
(* Python values. *)

None == <<>>
Some(s) == <<s>>

IsWs(c) == c \in {" ", "\n", "\t"}

RECURSIVE LStrip(_)
LStrip(s) == IF s # <<>> /\ IsWs(Head(s)) THEN LStrip(Tail(s)) ELSE s

RECURSIVE RStrip(_)
RStrip(s) ==
    IF s # <<>> /\ IsWs(s[Len(s)]) THEN RStrip(SubSeq(s, 1, Len(s) - 1)) ELSE s

\* str.strip()
Strip(s) == RStrip(LStrip(s))

\* s * n for a string s: empty when n <= 0
RECURSIVE Rep(_, _)
Rep(s, n) == IF n <= 0 THEN <<>> ELSE s \o Rep(s, n - 1)

FirstIdx(s, c) ==
    IF \E i \in 1..Len(s) : s[i] = c
    THEN CHOOSE i \in 1..Len(s) : s[i] = c /\ \A k \in 1..(i - 1) : s[k] # c
    ELSE 0

LastIdx(s, c) ==
    IF \E i \in 1..Len(s) : s[i] = c
    THEN CHOOSE i \in 1..Len(s) : s[i] = c /\ \A k \in (i + 1)..Len(s) : s[k] # c
    ELSE 0

\* re.sub(r'\{.*\}(.*)', r'\1', s) on a string without line breaks: the
\* leftmost match starts at the first "{", the greedy .* runs to the last "}",
\* the group is the rest of the string, and what precedes the match is kept.
ReSubNs(s) ==
    LET i == FirstIdx(s, "{")
        j == LastIdx(s, "}")
    IN  IF i > 0 /\ j > i
        THEN SubSeq(s, 1, i - 1) \o SubSeq(s, j + 1, Len(s))
        ELSE s

---------------------------------------------------------------------------
(* The documents. *)

Tags == { <<"{", "u", "}", "a">>, <<"b">> }

Texts == { None, Some(<<" ", "1", " ">>) }

RECURSIVE Reaches0(_, _, _)
Reaches0(p, n, k) ==
    IF n = 0 THEN TRUE
    ELSE IF k = 0 THEN FALSE
    ELSE Reaches0(p, p[n], k - 1)

\* No element is its own ancestor.
Acyclic(p) == \A n \in DOMAIN p : Reaches0(p, n, Cardinality(DOMAIN p))

\* A parsed document: one root, no parent cycle.
WellFormed(p) ==
    /\ Acyclic(p)
    /\ Cardinality({n \in DOMAIN p : p[n] = 0}) = 1

\* x.getchildren(): the children of x in document order
RECURSIVE SortedSeq(_)
SortedSeq(S) ==
    IF S = {} THEN <<>>
    ELSE LET m == CHOOSE m \in S : \A k \in S : m <= k
         IN  <<m>> \o SortedSeq(S \ {m})

GetChildren(x) == SortedSeq({c \in Nodes : parent[c] = x})

---------------------------------------------------------------------------
(* How a call ends, and the calls at rest. *)

Return(v) == [kind |-> "return", value |-> v]

\* an exception of the given type whose message is the given pieces of text
Raise(type, msg) == [kind |-> "raise", type |-> type, msg |-> msg]

NoResult == [kind |-> "none"]

\* an argument the caller leaves out
NoArg == "<no argument>"

NoFile == [exists |-> FALSE, readable |-> FALSE, data |-> <<>>]

LdIdle == [pc |-> "idle", fname |-> NoArg, fdir |-> NoArg, result |-> NoResult]

NoCall == [fname |-> NoArg, fdir |-> NoArg, result |-> NoResult]

NoFault == "<no fault>"

NoReply == [doc |-> "", form |-> "none"]

CfgIdle ==
    [pc |-> "idle", xml_filter |-> <<>>, source |-> NoArg,
     remove_blank_text |-> FALSE, pprn |-> FALSE, base |-> 0,
     response_xml |-> NoReply, fault |-> NoFault, parsed |-> FALSE,
     result |-> NoResult]

Names == {"interface", "port"}

Dirs == {"lab_filters"}

\* fdir: str = "sros_nf_filters"
DefaultDir == "sros_nf_filters"

Cwd == "/home/user"

Contents == { <<"<x/>">>, <<"<y/>">> }

ResolveDir_default(fdir) == DefaultDir

\* the directory used: the caller's, or the default
ResolveDir(fdir) == IF fdir = NoArg THEN DefaultDir ELSE fdir

\* os.path.abspath(f"{fdir}/{fname}.xml")
AbsPath(fname, fdir) == <<Cwd, "/", fdir, "/", fname, ".xml">>

AllPaths == {AbsPath(n, d) : n \in Names, d \in Dirs \cup {DefaultDir}}

IoIdle ==
    /\ fsys = [p \in AllPaths |-> NoFile]
    /\ ld = LdIdle
    /\ prev = NoCall
    /\ nfd = <<>>
    /\ cfg = CfgIdle
    /\ stdout = <<>>

---------------------------------------------------------------------------
(* get_path_to_root *)

GprIdle == [pc |-> "idle", e |-> 0, preserve_ns |-> FALSE, anc |-> 0, path |-> <<>>]

GenIdle == [pc |-> "idle", x |-> 0, frames |-> <<>>, preserve_ns |-> FALSE, text_strip |-> TRUE]

\* the name put on the path for ancestor a
AncName(a, preserve_ns) ==
    IF preserve_ns THEN Strip(tag[a]) ELSE ReSubNs(Strip(tag[a]))

PathInsert_append(path, name) == Append(path, name)

\* path.insert(0, name)
PathInsert(path, name) == <<name>> \o path

\* anc = e.getparent(); path = []
CallGetPathToRoot(e, preserve_ns) ==
    /\ gpr.pc = "idle"
    /\ gpr' = [pc |-> "loop", e |-> e, preserve_ns |-> preserve_ns,
               anc |-> parent[e], path |-> <<>>]
    /\ UNCHANGED <<parent, tag, text, gen, lines, iovars>>

\* one iteration of: while anc is not None
WalkStep ==
    /\ gpr.pc = "loop"
    /\ gpr.anc # 0
    /\ Len(gpr.path) < MaxWalk
    /\ gpr' = [gpr EXCEPT !.path = PathInsert(gpr.path, AncName(gpr.anc, gpr.preserve_ns)),
                          !.anc = parent[gpr.anc]]
    /\ UNCHANGED <<parent, tag, text, gen, lines, iovars>>

\* return path
WalkReturn ==
    /\ gpr.pc = "loop"
    /\ gpr.anc = 0
    /\ gpr' = [gpr EXCEPT !.pc = "done"]
    /\ UNCHANGED <<parent, tag, text, gen, lines, iovars>>

\* the caller takes the result; the next call may start
PathTaken ==
    /\ gpr.pc = "done"
    /\ gpr' = GprIdle
    /\ UNCHANGED <<parent, tag, text, gen, lines, iovars>>

\* Any parent map over the elements: a caller may hand in elements of a
\* malformed document, where getparent() runs in a cycle.
InitPath ==
    /\ parent \in [Nodes -> 0..MaxNodes]
    /\ tag \in [Nodes -> Tags]
    /\ text = [n \in Nodes |-> None]
    /\ gpr = GprIdle
    /\ gen = GenIdle
    /\ lines = <<>>
    /\ IoIdle

NextPath ==
    \/ \E e \in Nodes, preserve_ns \in BOOLEAN : CallGetPathToRoot(e, preserve_ns)
    \/ WalkStep
    \/ WalkReturn
    \/ PathTaken

SpecPath == InitPath /\ [][NextPath]_vars

---------------------------------------------------------------------------
(* What the path of an element is: its proper ancestors, root first. *)

RECURSIVE AncestorsRootFirst(_, _, _)
AncestorsRootFirst(p, n, k) ==
    IF k = 0 \/ p[n] = 0 THEN <<>>
    ELSE Append(AncestorsRootFirst(p, p[n], k - 1), p[n])

\* depth of n in its document, the root at depth 0
RECURSIVE Depth(_, _, _)
Depth(p, n, k) == IF k = 0 \/ p[n] = 0 THEN 0 ELSE 1 + Depth(p, p[n], k - 1)

\* the local part of a qualified tag {uri}name, or the tag when it has no uri
LocalName(t) ==
    IF t # <<>> /\ Head(t) = "{" THEN SubSeq(t, FirstIdx(t, "}") + 1, Len(t)) ELSE t

TagName(n, preserve_ns) == IF preserve_ns THEN tag[n] ELSE LocalName(tag[n])

\* C6: on a well-formed document get_path_to_root(e) returns the tag names of
\* e's proper ancestors, one per ancestor, the document root first and e's
\* parent last, without e's own tag: the empty sequence for the root, and D
\* names for an element at depth D.
C6_PathIsAncestors ==
    (gpr.pc = "done" /\ WellFormed(parent)) =>
        LET chain == AncestorsRootFirst(parent, gpr.e, MaxNodes)
        IN  /\ Len(gpr.path) = Depth(parent, gpr.e, MaxNodes)
            /\ Len(gpr.path) = Len(chain)
            /\ \A i \in 1..Len(chain) :
                   gpr.path[i] = TagName(chain[i], gpr.preserve_ns)
            /\ gpr.e \notin {chain[i] : i \in 1..Len(chain)}
            /\ (parent[gpr.e] = 0 => gpr.path = <<>>)
            /\ (chain # <<>> => /\ parent[chain[1]] = 0
                                /\ chain[Len(chain)] = parent[gpr.e])

\* a call on an element at depth 2 whose two ancestors have different names
C6_Witness ==
    /\ gpr.pc = "done"
    /\ WellFormed(parent)
    /\ Len(gpr.path) = 2
    /\ gpr.path[1] # gpr.path[2]
    /\ ~gpr.preserve_ns

\* C5: on a cyclic parent chain get_path_to_root fails fast and does not go
\* round the cycle: in one call it follows at most as many parent links as
\* the document has elements.
C5_NoSpin == gpr.pc = "loop" => Len(gpr.path) <= MaxNodes

---------------------------------------------------------------------------
(* xml_to_tree *)

Truthy(t) == t # None /\ t[1] # <<>>

\* the number of two-space units before "|--Tag: " and before "|  Text: "
IndentUnits(lvl) == lvl - 1

ChildLvl_same(lvl) == lvl

\* the lvl handed to the recursive call
ChildLvl(lvl) == lvl + 1

TagLabel == <<"|", "-", "-", "T", "a", "g", ":", " ">>
TextLabel == <<"|", " ", " ", "T", "e", "x", "t", ":", " ">>

\* the line xml_to_tree yields for element x at level lvl
FormatLine(x, lvl, preserve_ns, text_strip) ==
    LET t == IF preserve_ns THEN tag[x] ELSE ReSubNs(tag[x])
        txt == IF text_strip /\ Truthy(text[x]) THEN Strip(text[x][1])
               ELSE IF Truthy(text[x]) THEN text[x][1] ELSE <<>>
    IN  Rep(<<" ", " ">>, IndentUnits(lvl)) \o TagLabel \o t
        \o Rep(<<" ", " ">>, IndentUnits(lvl)) \o TextLabel \o txt

\* xml_to_tree(x, 1, preserve_ns, text_strip): the generator object is made,
\* its body has not started
CallXmlToTree(x, preserve_ns, text_strip) ==
    /\ gen.pc = "idle"
    /\ gen' = [pc |-> "running", x |-> x,
               frames |-> <<[x |-> x, lvl |-> 1, k |-> 0]>>,
               preserve_ns |-> preserve_ns, text_strip |-> text_strip]
    /\ lines' = <<>>
    /\ UNCHANGED <<parent, tag, text, gpr, iovars>>

Top == gen.frames[Len(gen.frames)]

\* the yield of the innermost active call
GenYield ==
    /\ gen.pc = "running"
    /\ Top.k = 0
    /\ lines' = Append(lines, FormatLine(Top.x, Top.lvl, gen.preserve_ns, gen.text_strip))
    /\ gen' = [gen EXCEPT !.frames[Len(gen.frames)].k = 1]
    /\ UNCHANGED <<parent, tag, text, gpr, iovars>>

\* for ch in x.getchildren(): yield from xml_to_tree(ch, lvl + 1, ...)
GenDescend ==
    /\ gen.pc = "running"
    /\ Top.k >= 1
    /\ Top.k <= Len(GetChildren(Top.x))
    /\ gen' = [gen EXCEPT !.frames =
                  Append([gen.frames EXCEPT ![Len(gen.frames)].k = Top.k + 1],
                         [x |-> GetChildren(Top.x)[Top.k], lvl |-> ChildLvl(Top.lvl), k |-> 0])]
    /\ UNCHANGED <<parent, tag, text, gpr, lines, iovars>>

\* the loop over the children is over: the call ends, and with the outermost
\* call the generator is exhausted
GenReturn ==
    /\ gen.pc = "running"
    /\ Top.k > Len(GetChildren(Top.x))
    /\ gen' = [gen EXCEPT !.frames = SubSeq(gen.frames, 1, Len(gen.frames) - 1),
                          !.pc = IF Len(gen.frames) = 1 THEN "done" ELSE "running"]
    /\ UNCHANGED <<parent, tag, text, gpr, lines, iovars>>

\* the consumer drops the exhausted generator
GenDropped ==
    /\ gen.pc = "done"
    /\ gen' = GenIdle
    /\ lines' = <<>>
    /\ UNCHANGED <<parent, tag, text, gpr, iovars>>

\* Parsed documents: element 1 is the root, every other element has an
\* earlier element as its parent, siblings are in document order.
InitTree ==
    /\ parent \in {p \in [Nodes -> 0..MaxNodes] :
                      p[1] = 0 /\ \A n \in Nodes \ {1} : p[n] >= 1 /\ p[n] < n}
    /\ tag \in [Nodes -> Tags]
    /\ text \in [Nodes -> Texts]
    /\ gpr = GprIdle
    /\ gen = GenIdle
    /\ lines = <<>>
    /\ IoIdle

NextTree ==
    \/ \E x \in Nodes, preserve_ns \in BOOLEAN, text_strip \in BOOLEAN :
           CallXmlToTree(x, preserve_ns, text_strip)
    \/ GenYield
    \/ GenDescend
    \/ GenReturn
    \/ GenDropped

SpecTree == InitTree /\ [][NextTree]_vars

\* The consumer consumes the generator fully: it calls next() until the
\* generator is exhausted, so a step of the generator's body that can be
\* taken is taken.
SpecTreeConsumed ==
    InitTree /\ [][NextTree]_vars /\ WF_vars(GenYield \/ GenDescend \/ GenReturn)

\* the elements of the subtree of x, a node before its children and the
\* children's subtrees in document order
RECURSIVE PreOrder(_)
RECURSIVE PreOrderAll(_)
PreOrder(x) == <<x>> \o PreOrderAll(GetChildren(x))
PreOrderAll(cs) == IF cs = <<>> THEN <<>> ELSE PreOrder(Head(cs)) \o PreOrderAll(Tail(cs))

\* depth of n in the subtree of x, x at depth 1
RECURSIVE DepthIn(_, _)
DepthIn(n, x) == IF n = x THEN 1 ELSE 1 + DepthIn(parent[n], x)

LeadingSpaces(s) == Len(s) - Len(LStrip(s))

\* the elements of the subtree of x
Subtree(x) == {n \in Nodes : \E i \in 1..Len(PreOrder(x)) : PreOrder(x)[i] = n}

\* what an exhausted generator has yielded: the lines of the subtree's nodes
\* in pre-order, each behind 2 * (d - 1) spaces
LinesInPreOrder ==
    gen.pc = "done" =>
        LET po == PreOrder(gen.x)
        IN  /\ Len(lines) = Cardinality(Subtree(gen.x))
            /\ Len(lines) = Len(po)
            /\ \A i \in 1..Len(po) :
                   LET d == DepthIn(po[i], gen.x)
                   IN  /\ LeadingSpaces(lines[i]) = 2 * (d - 1)
                       /\ lines[i] = FormatLine(po[i], d, gen.preserve_ns, gen.text_strip)
            /\ (GetChildren(gen.x) = <<>> => Len(lines) = 1)

\* C7: consuming xml_to_tree(root) to its end terminates with one line per
\* node of the subtree, in pre-order; the line of a node at depth d starts
\* with exactly d - 1 two-space units, and a root without children gives
\* exactly one line.
C7_OneLinePerNodePreOrder ==
    /\ []LinesInPreOrder
    /\ (gen.pc = "running" ~> gen.pc = "done")

\* a consumed subtree of three levels
C7_Witness ==
    /\ gen.pc = "done"
    /\ Len(lines) = 3
    /\ LeadingSpaces(lines[3]) = 4

---------------------------------------------------------------------------
(* load_xml_filter *)

\* os.path.exists(path) and os.access(path, os.R_OK)
Loadable(path) == fsys[path].exists /\ fsys[path].readable

\* the message of the ValueError
NotFoundMsg(fname, fdir) ==
    <<"Please directory ", fdir, " exist and intended filter present in the directory.">>

\* load_xml_filter(fname) or load_xml_filter(fname, fdir)
LoadXmlFilter(fname, fdir) ==
    LET path == AbsPath(fname, ResolveDir(fdir))
    IN  /\ ld.pc = "idle"
        /\ IF Loadable(path)
           THEN /\ stdout' = <<"fh type: ", "<class '_io.TextIOWrapper'>", "\n">>
                /\ ld' = [pc |-> "returned", fname |-> fname, fdir |-> fdir,
                          result |-> Return(fsys[path].data)]
           ELSE /\ stdout' = <<"Can't load filter ", fname, "\n">>
                /\ ld' = [pc |-> "returned", fname |-> fname, fdir |-> fdir,
                          result |-> Raise("ValueError", NotFoundMsg(fname, ResolveDir(fdir)))]
        /\ UNCHANGED <<fsys, prev, nfd, cfg, xmlvars>>

\* the caller has the result (or the error); the call is over
FilterTaken ==
    /\ ld.pc = "returned"
    /\ prev' = [fname |-> ld.fname, fdir |-> ld.fdir, result |-> ld.result]
    /\ ld' = LdIdle
    /\ stdout' = <<>>
    /\ UNCHANGED <<fsys, nfd, cfg, xmlvars>>

\* Between two calls somebody writes, removes or protects a filter file.
WriteFile(path, data) ==
    /\ ld.pc = "idle"
    /\ fsys' = [fsys EXCEPT ![path] = [exists |-> TRUE, readable |-> TRUE, data |-> data]]
    /\ UNCHANGED <<ld, prev, nfd, cfg, stdout, xmlvars>>

RemoveFile(path) ==
    /\ ld.pc = "idle"
    /\ fsys[path].exists
    /\ fsys' = [fsys EXCEPT ![path] = NoFile]
    /\ UNCHANGED <<ld, prev, nfd, cfg, stdout, xmlvars>>

Chmod(path, readable) ==
    /\ ld.pc = "idle"
    /\ fsys[path].exists
    /\ fsys' = [fsys EXCEPT ![path].readable = readable]
    /\ UNCHANGED <<ld, prev, nfd, cfg, stdout, xmlvars>>

XmlIdle ==
    /\ parent = [n \in Nodes |-> 0]
    /\ tag = [n \in Nodes |-> <<"b">>]
    /\ text = [n \in Nodes |-> None]
    /\ gpr = GprIdle
    /\ gen = GenIdle
    /\ lines = <<>>

InitFilter ==
    /\ IoIdle
    /\ XmlIdle

NextFilter ==
    \/ \E fname \in Names, fdir \in Dirs \cup {NoArg} : LoadXmlFilter(fname, fdir)
    \/ FilterTaken
    \/ \E path \in AllPaths, data \in Contents : WriteFile(path, data)
    \/ \E path \in AllPaths : RemoveFile(path)
    \/ \E path \in AllPaths, readable \in BOOLEAN : Chmod(path, readable)

SpecFilter == InitFilter /\ [][NextFilter]_vars

\* the path <fdir>/<fname>.xml of a call, fdir being the default when left out
PathOf(fname, fdir) ==
    <<Cwd, "/", IF fdir = NoArg THEN "sros_nf_filters" ELSE fdir, "/", fname, ".xml">>

\* the text s is one of the pieces of the message
Mentions(msg, s) == \E i \in 1..Len(msg) : msg[i] = s

\* the pieces of sub occur in the message, in a row
MentionsAll(msg, sub) ==
    \E i \in 1..Len(msg) :
        /\ i + Len(sub) - 1 <= Len(msg)
        /\ SubSeq(msg, i, i + Len(sub) - 1) = sub

\* C10: load_xml_filter keeps no cache: every load returns the contents the
\* file <fdir>/<fname>.xml has in storage at the time of the call, and fails
\* when the file is not there (any more), whatever an earlier load returned.
C10_NoCache ==
    ld.pc = "returned" =>
        LET f == fsys[PathOf(ld.fname, ld.fdir)]
        IN  IF f.exists /\ f.readable
            THEN ld.result = Return(f.data)
            ELSE ld.result.kind = "raise"

\* two loads of the same name in a row, the file changed in between
C10_Witness ==
    /\ ld.pc = "returned"
    /\ prev.fname = ld.fname
    /\ prev.fdir = ld.fdir
    /\ prev.result.kind = "return"
    /\ ld.result.kind = "return"
    /\ prev.result.value # ld.result.value

\* C3: a load of a name whose file does not exist or is not readable fails,
\* returning no content, and the error raised names both the missing file and
\* the expected directory.
C3_ErrorNamesFileAndDir ==
    (ld.pc = "returned" /\ ~Loadable(PathOf(ld.fname, ld.fdir))) =>
        /\ ld.result.kind = "raise"
        /\ Mentions(ld.result.msg, IF ld.fdir = NoArg THEN "sros_nf_filters" ELSE ld.fdir)
        /\ \/ Mentions(ld.result.msg, ld.fname)
           \/ MentionsAll(ld.result.msg, PathOf(ld.fname, ld.fdir))

---------------------------------------------------------------------------
(* get_sros_elem_config *)

\* The session's log is cut off after this many requests.
MaxRequests == 2

\* def_xml_filter, as written in the source: a line break and the indentation
\* of the source line before the start tag and before the end tag
def_xml_filter ==
    <<"\n", "              ", "<configure xmlns=\"urn:nokia.com:sros:ns:yang:sr:conf\">",
      "\n", "              ", "</configure>">>

\* the filters callers pass: none (the empty string), or a subtree filter
Filters ==
    { <<>>,
      <<"<interface/>">>,
      <<"<configure xmlns=\"urn:nokia.com:sros:ns:yang:sr:conf\">", "<port/>", "</configure>">> }

Datastores == {"running", "candidate"}

\* what the session may answer: a well-formed document, one the parser can
\* recover a tree from, and one it cannot
Replies ==
    { [doc |-> "<configure xmlns=\"urn:nokia.com:sros:ns:yang:sr:conf\"><x>1</x></configure>",
       form |-> "well-formed"],
      [doc |-> "<a><b></a>", form |-> "recoverable"],
      [doc |-> "", form |-> "unparsable"] }

\* what get_config may raise
Faults == {"TimeoutExpiredError", "SessionCloseError"}

GetConfigSource_running(source) == "running"

\* source: str = "running"
GetConfigSource(source) == IF source = NoArg THEN "running" ELSE source

GetConfigFilter_asgiven(xml_filter) == <<"subtree", xml_filter>>

\* filter=('subtree', xml_filter) if xml_filter else ('subtree', def_xml_filter)
GetConfigFilter(xml_filter) ==
    IF xml_filter # <<>> THEN <<"subtree", xml_filter>> ELSE <<"subtree", def_xml_filter>>

Request == [source |-> GetConfigSource(cfg.source), filter |-> GetConfigFilter(cfg.xml_filter)]

\* a + b raises TypeError when one is a str and the other an int
PyAddRaises(a, b) == a.t # b.t

Title == " Retrieved SROS XML config "

\* the tree etree.fromstring builds for a document it can read
Root(reply, remove_blank_text) ==
    [root_of |-> reply.doc, blank_text_removed |-> remove_blank_text]

\* etree.fromstring(data_xml, XMLParser(recover=True, ...)): the root of the
\* tree, recovered where the document is broken; for a document no tree can be
\* recovered from, None or an XMLSyntaxError, as the library decides
FromString(reply, remove_blank_text) ==
    IF reply.form = "unparsable"
    THEN {Return(None), Raise("XMLSyntaxError", <<"Document is empty, line 1, column 1">>)}
    ELSE {Return(Root(reply, remove_blank_text))}

CallGetSrosElemConfig(xml_filter, source, remove_blank_text, pprn) ==
    /\ cfg.pc = "idle"
    /\ Len(nfd) < MaxRequests
    /\ cfg' = [CfgIdle EXCEPT !.pc = "request", !.xml_filter = xml_filter,
                              !.source = source, !.remove_blank_text = remove_blank_text,
                              !.pprn = pprn, !.base = Len(nfd)]
    /\ stdout' = <<>>
    /\ UNCHANGED <<nfd, fsys, ld, prev, xmlvars>>

\* nfd.get_config(...) answers
GetConfigReturns(reply) ==
    /\ cfg.pc = "request"
    /\ nfd' = Append(nfd, Request)
    /\ cfg' = [cfg EXCEPT !.pc = "echo", !.response_xml = reply]
    /\ UNCHANGED <<stdout, fsys, ld, prev, xmlvars>>

GetConfigRaises_retry(fault) ==
    /\ cfg.pc = "request"
    /\ nfd' = Append(nfd, Request)
    /\ cfg' = IF Len(nfd) - cfg.base < 1 THEN cfg
              ELSE [cfg EXCEPT !.pc = "done", !.fault = fault, !.result = Raise(fault, <<>>)]
    /\ UNCHANGED <<stdout, fsys, ld, prev, xmlvars>>

\* nfd.get_config(...) raises: nothing catches it
GetConfigRaises(fault) ==
    /\ cfg.pc = "request"
    /\ nfd' = Append(nfd, Request)
    /\ cfg' = [cfg EXCEPT !.pc = "done", !.fault = fault, !.result = Raise(fault, <<>>)]
    /\ UNCHANGED <<stdout, fsys, ld, prev, xmlvars>>

\* if pprn: false
EchoSkipped ==
    /\ cfg.pc = "echo"
    /\ ~cfg.pprn
    /\ cfg' = [cfg EXCEPT !.pc = "parse"]
    /\ UNCHANGED <<stdout, nfd, fsys, ld, prev, xmlvars>>

\* if pprn: the banner, the payload, and 40 * "=" + len(title)
EchoConfig ==
    /\ cfg.pc = "echo"
    /\ cfg.pprn
    /\ IF PyAddRaises([t |-> "str", v |-> Rep(<<"=">>, 40)], [t |-> "int", v |-> 27])
       THEN /\ stdout' = <<Rep(<<"=">>, 20), Title, Rep(<<"=">>, 20), "\n",
                           cfg.response_xml.doc, "\n">>
            /\ cfg' = [cfg EXCEPT !.pc = "done",
                          !.result = Raise("TypeError",
                                           <<"can only concatenate str (not \"int\") to str">>)]
       ELSE /\ stdout' = <<Rep(<<"=">>, 20), Title, Rep(<<"=">>, 20), "\n",
                           cfg.response_xml.doc, "\n", Rep(<<"=">>, 40), "\n">>
            /\ cfg' = [cfg EXCEPT !.pc = "parse"]
    /\ UNCHANGED <<nfd, fsys, ld, prev, xmlvars>>

\* return etree.fromstring(...)
ParseConfig(outcome) ==
    /\ cfg.pc = "parse"
    /\ outcome \in FromString(cfg.response_xml, cfg.remove_blank_text)
    /\ cfg' = [cfg EXCEPT !.pc = "done", !.parsed = TRUE, !.result = outcome]
    /\ UNCHANGED <<stdout, nfd, fsys, ld, prev, xmlvars>>

\* the caller has the tree (or the error)
ConfigTaken ==
    /\ cfg.pc = "done"
    /\ cfg' = CfgIdle
    /\ stdout' = <<>>
    /\ UNCHANGED <<nfd, fsys, ld, prev, xmlvars>>

InitFetch ==
    /\ IoIdle
    /\ XmlIdle

ParseOutcomes ==
    UNION {FromString(r, b) : r \in Replies, b \in BOOLEAN}

NextFetch ==
    \/ \E xml_filter \in Filters, source \in Datastores \cup {NoArg},
          remove_blank_text \in BOOLEAN, pprn \in BOOLEAN :
           CallGetSrosElemConfig(xml_filter, source, remove_blank_text, pprn)
    \/ \E reply \in Replies : GetConfigReturns(reply)
    \/ \E fault \in Faults : GetConfigRaises(fault)
    \/ EchoSkipped
    \/ EchoConfig
    \/ \E outcome \in ParseOutcomes : ParseConfig(outcome)
    \/ ConfigTaken

SpecFetch == InitFetch /\ [][NextFetch]_vars

\* the requests the session has received from the running call
Sent == SubSeq(nfd, cfg.base + 1, Len(nfd))

Asked == cfg.pc \in {"echo", "parse", "done"}

\* C1: with a non-empty xml_filter f and datastore s, get_config is invoked
\* with exactly source = s and filter = ('subtree', f), and with source
\* 'running' when the caller names no datastore.
C1_FilterAndSourcePassedThrough ==
    (Asked /\ cfg.xml_filter # <<>>) =>
        /\ Len(Sent) = 1
        /\ Sent[1].filter = <<"subtree", cfg.xml_filter>>
        /\ Sent[1].source = (IF cfg.source = NoArg THEN "running" ELSE cfg.source)

\* a request for the candidate datastore with an explicit filter
C1_Witness ==
    /\ Asked
    /\ cfg.xml_filter = <<"<interface/>">>
    /\ cfg.source = "candidate"
    /\ Len(Sent) = 1

\* the default filter literal, as the specification quotes it
QuotedDefaultFilter ==
    <<"<configure xmlns=\"urn:nokia.com:sros:ns:yang:sr:conf\">", "</configure>">>

\* the pieces of def_xml_filter that are white space only
IsBlank(piece) == piece \in {"\n", "              "}

\* a text without its pieces that are white space only
RECURSIVE DropBlank(_)
DropBlank(s) ==
    IF s = <<>> THEN <<>>
    ELSE IF IsBlank(Head(s)) THEN DropBlank(Tail(s))
    ELSE <<Head(s)>> \o DropBlank(Tail(s))

\* C9, as claimed: without a filter, the filter sent is ('subtree', D) with D
\* the literal <configure xmlns="urn:nokia.com:sros:ns:yang:sr:conf"></configure>,
\* and the caller's datastore is the source.
C9_DefaultFilterIsQuotedLiteral ==
    (Asked /\ cfg.xml_filter = <<>>) =>
        /\ Len(Sent) = 1
        /\ Sent[1].filter = <<"subtree", QuotedDefaultFilter>>
        /\ Sent[1].source = (IF cfg.source = NoArg THEN "running" ELSE cfg.source)

\* C9, amended: without a filter, the filter sent is ('subtree', D) with D the
\* built-in default filter, which is the quoted literal written over two
\* lines: it starts with a line break and indentation and has a line break and
\* indentation between the start tag and the end tag, and is the quoted
\* literal once that white space is dropped; the caller's datastore is the
\* source.
C9_DefaultFilterUpToWhiteSpace ==
    (Asked /\ cfg.xml_filter = <<>>) =>
        /\ Len(Sent) = 1
        /\ Len(Sent[1].filter) = 2
        /\ Sent[1].filter[1] = "subtree"
        /\ DropBlank(Sent[1].filter[2]) = QuotedDefaultFilter
        /\ Len(Sent[1].filter[2]) = Len(QuotedDefaultFilter) + 4
        /\ IsBlank(Sent[1].filter[2][1]) /\ IsBlank(Sent[1].filter[2][2])
        /\ IsBlank(Sent[1].filter[2][4]) /\ IsBlank(Sent[1].filter[2][5])
        /\ Sent[1].source = (IF cfg.source = NoArg THEN "running" ELSE cfg.source)

\* a request without a filter, for the candidate datastore
C9_Witness ==
    /\ Asked
    /\ cfg.xml_filter = <<>>
    /\ cfg.source = "candidate"
    /\ Len(Sent) = 1

\* C8: a call makes one attempt: get_config is invoked exactly once, whether
\* it answers or fails, and a fault it raises reaches the caller unchanged,
\* with no second request on the session.
C8_SingleAttempt ==
    /\ cfg.pc # "idle" => Len(Sent) <= 1
    /\ Asked => Len(Sent) = 1
    /\ (cfg.pc = "done" /\ cfg.fault # NoFault) =>
           /\ cfg.result.kind = "raise"
           /\ cfg.result.type = cfg.fault
           /\ ~cfg.parsed

\* a call whose get_config raised
C8_Witness ==
    /\ cfg.pc = "done"
    /\ cfg.fault = "TimeoutExpiredError"
    /\ Len(Sent) = 1

\* C2: when get_config answers and the payload parses, the call returns the
\* root Element of the parsed response, with pprn false and with pprn true:
\* pprn only prints.
C2_PprnOnlyPrints ==
    (cfg.pc = "done" /\ cfg.fault = NoFault /\ cfg.response_xml.form # "unparsable") =>
        cfg.result = Return(Root(cfg.response_xml, cfg.remove_blank_text))

\* C4: when the response cannot be parsed even with recovery, the call fails
\* with an error that names the datastore and the filter of the request, and
\* never returns an absent tree.
C4_MalformedResponseNamed ==
    (cfg.pc = "done" /\ cfg.parsed /\ cfg.response_xml.form = "unparsable") =>
        /\ cfg.result.kind = "raise"
        /\ Mentions(cfg.result.msg, GetConfigSource(cfg.source))
        /\ \/ MentionsAll(cfg.result.msg, cfg.xml_filter)
           \/ MentionsAll(cfg.result.msg, Sent[1].filter[2])

=============================================================================
